---- MODULE Spec2Model ----
(***************************************************************************)
(* The journal ledger of the general-ledger service                        *)
(* (backend/core-services/general-ledger/src/services/journal_service.py   *)
(* and models/journal_entries.py) and its chart of accounts                *)
(* (services/gl_service.py and models/chart_of_accounts.py), with the      *)
(* aging reports of the accounts-receivable and accounts-payable services  *)
(* (services/ar_service.py, services/ap_service.py).                       *)
(*                                                                         *)
(* Amounts are counted in mills (thousandths of the currency unit), so     *)
(* 10 mills are one cent.  The request models carry unconstrained          *)
(* Decimal values; the columns are Numeric(15, 2), so a value read back    *)
(* from the tables has been rounded to whole cents (Quantize).             *)
(* Timestamps are modelled at the granularity of the calendar year.        *)
(* The names JournalEntry and JournalLine of the service are read as the   *)
(* table classes (journal_entries.py 12-50), not as the response models    *)
(* of the same names defined further down in that file.                    *)
(* Specification Spec runs the service calls one at a time, each one as a  *)
(* single transaction; SpecNum does so for the numbering; SpecConc runs    *)
(* creations and posts of two sessions step by step and SpecRace adds      *)
(* voids, updates, readers and deactivations; SpecAcct runs the calls of   *)
(* the chart of accounts one at a time and SpecTree adds the reading of    *)
(* the hierarchy; SpecFrame runs the journal together with deactivations;  *)
(* SpecAging runs the aging reports over a table of invoices; SpecYear     *)
(* runs creations and posts over a change of the calendar year;            *)
(* SpecOrders runs generate_invoice_from_order of the receivable service   *)
(* over a table of sales orders.                                           *)
(***************************************************************************)
EXTENDS Integers, Sequences, FiniteSets, TLC

VARIABLES
    accounts,   \* chart_of_accounts rows, indexed by the primary key id
    entries,    \* journal_entries rows, indexed by the primary key id
    lines,      \* journal_lines rows grouped by journal_entry_id
    year,       \* datetime.utcnow().year
    last,       \* the last service call and what it returned or raised
    sess,       \* the open sessions of the step-by-step specification
    invoices,   \* the invoices table of the receivable or the payable service
    sales_orders,   \* the sales_orders table of the receivable service
    invoice_lines   \* the invoice_lines table of the receivable service

vars == <<accounts, entries, lines, year, last, sess, invoices, sales_orders,
          invoice_lines>>

----------------------------------------------------------------------------
(* Bounds of the model *)

MaxEntries == 2      \* entries stored under Spec
MaxNumbered == 3     \* entries stored under SpecNum
MaxDate == 2
MaxAccounts == 2     \* accounts stored under SpecAcct
MaxFramed == 1       \* entries stored under SpecFrame
MaxInvoices == 2     \* invoices stored under SpecAging
MaxRaced == 1        \* entries stored under SpecRace
MaxYearEntries == 2  \* entries stored under SpecYear
MaxYear == 2         \* the last calendar year of SpecYear
MaxOrders == 2       \* sales orders stored under SpecOrders

----------------------------------------------------------------------------
(* Values *)

Dates == 1..MaxDate

\* the value of an Optional field that is not given, NULL in a column
None == 0 - 1

NoNumber == [year |-> 0, seq |-> 0]
Text(s) == [text |-> s, num |-> NoNumber]

\* Column(Numeric(15, 2)): the value is kept with two fractional digits
Quantize(m) == ((m + 5) \div 10) * 10

RECURSIVE SumDebits(_)
SumDebits(ls) ==
    IF ls = <<>> THEN 0 ELSE ls[1].debit_amount + SumDebits(Tail(ls))

RECURSIVE SumCredits(_)
SumCredits(ls) ==
    IF ls = <<>> THEN 0 ELSE ls[1].credit_amount + SumCredits(Tail(ls))

\* JournalLineCreate: account_id, line_number, description, debit_amount >= 0,
\* credit_amount >= 0
JournalLineCreate(n, a, d, c) ==
    [account_id |-> a, line_number |-> n, description |-> Text("line"),
     debit_amount |-> d, credit_amount |-> c]

\* the line lists a request may carry (List[JournalLineCreate], the empty list
\* included), amounts in mills
NoLines == <<>>
OneLineBothSides == <<JournalLineCreate(1, 1, 10, 10)>>
BalancedLines == <<JournalLineCreate(1, 1, 20, 0), JournalLineCreate(2, 3, 0, 20)>>
SubCentLines == <<JournalLineCreate(1, 1, 4, 8), JournalLineCreate(2, 1, 4, 0)>>
UnbalancedLines == <<JournalLineCreate(1, 1, 100, 0), JournalLineCreate(2, 1, 0, 90)>>
InactiveAccountLines == <<JournalLineCreate(1, 1, 10, 0), JournalLineCreate(2, 2, 0, 10)>>
MissingAccountLines == <<JournalLineCreate(1, 4, 10, 0), JournalLineCreate(2, 1, 0, 10)>>
UnbalancedInvalidLines == <<JournalLineCreate(1, 1, 10, 0), JournalLineCreate(2, 4, 0, 4)>>

LineLists ==
    {BalancedLines, SubCentLines, UnbalancedLines,
     InactiveAccountLines, MissingAccountLines, UnbalancedInvalidLines}

UpdateLineLists ==
    {BalancedLines, SubCentLines, UnbalancedLines, InactiveAccountLines}

\* the line lists of the numbering specification
NumLineLists == {OneLineBothSides, BalancedLines, UnbalancedLines}

\* the ChartOfAccounts row: account_code, account_name, parent_account_id,
\* is_active and normal_balance (account_type, account_category and
\* description are free values that no code path reads)
Account(code, parent, active, normal) ==
    [account_code |-> code, account_name |-> "name", parent_account_id |-> parent,
     is_active |-> active, normal_balance |-> normal]

\* the chart the journal specifications start from: accounts 1 and 3 are
\* active, account 2 was deactivated, account 4 does not exist
\* the invoices table where no report is generated
NoInvoices == [service |-> "none", rows |-> <<>>]

InitialAccounts ==
    <<Account(1, None, TRUE, "Debit"), Account(2, None, FALSE, "Credit"),
      Account(3, None, TRUE, "Credit")>>

\* the query of create_journal_entry and update_journal_entry for an account
\* that exists and is active
AccountActive(a) == a \in DOMAIN accounts /\ accounts[a].is_active

\* the first line of the list whose account is missing or inactive, 0 if none
FirstInvalid(ls) ==
    IF \E i \in 1..Len(ls) : ~AccountActive(ls[i].account_id)
    THEN CHOOSE i \in 1..Len(ls) :
            /\ ~AccountActive(ls[i].account_id)
            /\ \A j \in 1..(i - 1) : AccountActive(ls[j].account_id)
    ELSE 0

\* the JournalLine rows as the table keeps them
StoredLines(ls) ==
    [i \in 1..Len(ls) |->
        [account_id |-> ls[i].account_id,
         line_number |-> ls[i].line_number,
         description |-> ls[i].description,
         debit_amount |-> Quantize(ls[i].debit_amount),
         credit_amount |-> Quantize(ls[i].credit_amount)]]

Ids == 1..Len(entries)

\* the entry ids a caller may pass: one more than can be stored, so that an
\* unknown id always exists
EntryIds == 1..(MaxEntries + 1)
NumEntryIds == 1..(MaxNumbered + 1)

NoDetail == [debits |-> 0, credits |-> 0, account |-> 0]

Returned(op, id, result) ==
    [op |-> op, id |-> id, result |-> result, detail |-> NoDetail]

----------------------------------------------------------------------------
(* JournalService._generate_entry_number *)

\* count of the journal entries with a line joined to them: one row per line
CountJoinedLines(y) ==
    LET RECURSIVE Rows(_)
        Rows(i) ==
            IF i = 0 THEN 0
            ELSE (IF entries[i].created_at = y THEN Len(lines[i]) ELSE 0) + Rows(i - 1)
    IN Rows(Len(entries))

\* count of the entries whose entry_date lies in the year, an entry date d
\* taken as a day of year d
CountByEntryDate(y) == Cardinality({i \in Ids : entries[i].entry_date = y})

\* db.query(JournalEntry).filter(extract('year', created_at) == current_year).count()
CountEntries(y) == Cardinality({i \in Ids : entries[i].created_at = y})

\* f"JE-{current_year}-{count + 1:05d}"
GenerateEntryNumber == [year |-> year, seq |-> CountEntries(year) + 1]

\* entry_number = Column(String(20), unique=True): the insert of a number that
\* a stored row already has is refused
UniqueViolation(n) == \E i \in Ids : entries[i].entry_number = n

----------------------------------------------------------------------------
(* JournalService.create_journal_entry *)

\* JournalEntryCreate: entry_date, reference, description, entry_type,
\* journal_lines
JournalEntryCreate(d, ls) ==
    [entry_date |-> d, reference |-> Text("ref"), description |-> Text("memo"),
     entry_type |-> "Manual", journal_lines |-> ls]

CreateRequests == {JournalEntryCreate(1, ls) : ls \in LineLists}
NumCreateRequests == {JournalEntryCreate(1, ls) : ls \in NumLineLists}

CreateResultNoBalanceCheck(req) ==
    IF UniqueViolation(GenerateEntryNumber) THEN "IntegrityError"
    ELSE IF FirstInvalid(req.journal_lines) # 0 THEN "InvalidAccount"
    ELSE "ok"

\* create_journal_entry refusing an empty list of lines
CreateResultNeedsLines(req) ==
    IF req.journal_lines = <<>> THEN "Unbalanced"
    ELSE IF SumDebits(req.journal_lines) # SumCredits(req.journal_lines) THEN "Unbalanced"
    ELSE IF UniqueViolation(GenerateEntryNumber) THEN "IntegrityError"
    ELSE IF FirstInvalid(req.journal_lines) # 0 THEN "InvalidAccount"
    ELSE "ok"

\* what the call raises, "ok" when it returns the entry: the balance check
\* comes first, then the flush of the header, then the accounts of the lines
CreateResult(req) ==
    IF SumDebits(req.journal_lines) # SumCredits(req.journal_lines) THEN "Unbalanced"
    ELSE IF UniqueViolation(GenerateEntryNumber) THEN "IntegrityError"
    ELSE IF FirstInvalid(req.journal_lines) # 0 THEN "InvalidAccount"
    ELSE "ok"

CreateDetail(req) ==
    LET r == CreateResult(req)
        k == FirstInvalid(req.journal_lines)
    IN  [debits |-> IF r = "Unbalanced" THEN SumDebits(req.journal_lines) ELSE 0,
         credits |-> IF r = "Unbalanced" THEN SumCredits(req.journal_lines) ELSE 0,
         account |-> IF r = "InvalidAccount" THEN req.journal_lines[k].account_id ELSE 0]

\* the JournalEntry row of a committed creation
EntryRow(req, number) ==
    [entry_number |-> number,
     entry_date |-> req.entry_date,
     reference |-> req.reference,
     description |-> req.description,
     entry_type |-> req.entry_type,
     status |-> "Draft",
     total_debits |-> Quantize(SumDebits(req.journal_lines)),
     total_credits |-> Quantize(SumCredits(req.journal_lines)),
     is_balanced |-> (SumDebits(req.journal_lines) = SumCredits(req.journal_lines)),
     posted_at |-> 0,
     posted_by |-> 0,
     created_at |-> year]

NewEntry(req) == EntryRow(req, GenerateEntryNumber)

\* create_journal_entry without the rollback: the header and the lines added
\* before the failing one stay
CreateEntryNoRollback(op, req) ==
    LET r == CreateResult(req)
        k == FirstInvalid(req.journal_lines)
    IN
    /\ IF r = "ok"
       THEN /\ entries' = Append(entries, NewEntry(req))
            /\ lines' = Append(lines, StoredLines(req.journal_lines))
       ELSE IF r = "InvalidAccount"
       THEN /\ entries' = Append(entries, NewEntry(req))
            /\ lines' = Append(lines, StoredLines(SubSeq(req.journal_lines, 1, k - 1)))
       ELSE UNCHANGED <<entries, lines>>
    /\ last' = [op |-> op, id |-> IF r = "ok" THEN Len(entries) + 1 ELSE 0,
                result |-> r, detail |-> CreateDetail(req)]
    /\ UNCHANGED <<accounts, year, sess, invoices,
                   sales_orders, invoice_lines>>

\* the body of create_journal_entry, also run by create_reversing_entry:
\* commit of the header and all lines, or rollback of everything
CreateEntry(op, req) ==
    LET r == CreateResult(req) IN
    /\ IF r = "ok"
       THEN /\ entries' = Append(entries, NewEntry(req))
            /\ lines' = Append(lines, StoredLines(req.journal_lines))
       ELSE UNCHANGED <<entries, lines>>
    /\ last' = [op |-> op, id |-> IF r = "ok" THEN Len(entries) + 1 ELSE 0,
                result |-> r, detail |-> CreateDetail(req)]
    /\ UNCHANGED <<accounts, year, sess, invoices,
                   sales_orders, invoice_lines>>

create_journal_entry(reqs, cap) ==
    \E req \in reqs :
        /\ Len(entries) < cap
        /\ CreateEntry("create", req)

----------------------------------------------------------------------------
(* JournalService.post_journal_entry *)

PostResultNoVoidCheck(id) ==
    IF id \notin Ids THEN "NotFound"
    ELSE IF entries[id].status = "Posted" THEN "AlreadyPosted"
    ELSE IF ~entries[id].is_balanced THEN "Unbalanced"
    ELSE "ok"

\* post_journal_entry with a check of the accounts of the lines
PostResultActiveAccounts(id) ==
    IF id \notin Ids THEN "NotFound"
    ELSE IF entries[id].status = "Posted" THEN "AlreadyPosted"
    ELSE IF entries[id].status = "Void" THEN "CannotPostVoid"
    ELSE IF ~entries[id].is_balanced THEN "Unbalanced"
    ELSE IF FirstInvalid(lines[id]) # 0 THEN "InvalidAccount"
    ELSE "ok"

PostResult(id) ==
    IF id \notin Ids THEN "NotFound"
    ELSE IF entries[id].status = "Posted" THEN "AlreadyPosted"
    ELSE IF entries[id].status = "Void" THEN "CannotPostVoid"
    ELSE IF ~entries[id].is_balanced THEN "Unbalanced"
    ELSE "ok"

post_journal_entry(ids) ==
    \E id \in ids :
        LET r == PostResult(id) IN
        /\ IF r = "ok"
           THEN entries' = [entries EXCEPT ![id].status = "Posted",
                                           ![id].posted_at = year]
           ELSE UNCHANGED entries
        /\ last' = Returned("post", id, r)
        /\ UNCHANGED <<accounts, lines, year, sess, invoices,
                       sales_orders, invoice_lines>>

----------------------------------------------------------------------------
(* JournalService.void_journal_entry *)

VoidResultNoPostedCheck(id) ==
    IF id \notin Ids THEN "NotFound"
    ELSE IF entries[id].status = "Void" THEN "AlreadyVoid"
    ELSE "ok"

VoidResultNoVoidCheck(id) ==
    IF id \notin Ids THEN "NotFound"
    ELSE IF entries[id].status = "Posted" THEN "CannotVoidPosted"
    ELSE "ok"

VoidResult(id) ==
    IF id \notin Ids THEN "NotFound"
    ELSE IF entries[id].status = "Posted" THEN "CannotVoidPosted"
    ELSE IF entries[id].status = "Void" THEN "AlreadyVoid"
    ELSE "ok"

\* the reason: str argument of the call
Reasons == {Text("reason")}

\* the call on one entry: status and updated_at are the only attributes set,
\* the reason argument is not used
VoidEntry(id, reason) ==
    LET r == VoidResult(id) IN
    /\ IF r = "ok"
       THEN entries' = [entries EXCEPT ![id].status = "Void"]
       ELSE UNCHANGED entries
    /\ last' = Returned("void", id, r)
    /\ UNCHANGED <<accounts, lines, year, sess, invoices,
                   sales_orders, invoice_lines>>

void_journal_entry(ids) ==
    \E id \in ids, reason \in Reasons : VoidEntry(id, reason)

----------------------------------------------------------------------------
(* JournalService.update_journal_entry *)

ScalarFields == {"entry_date", "reference", "description", "entry_type"}

\* JournalEntryUpdate: every field optional; fields_set names the fields the
\* caller supplied (dict(exclude_unset=True))
UpdateRequest(fs, d, ls) ==
    [fields_set |-> fs, entry_date |-> d, reference |-> Text("ref2"),
     description |-> Text("memo2"), entry_type |-> "Recurring", journal_lines |-> ls]

NumUpdateRequests ==
    {UpdateRequest({"journal_lines"}, MaxDate, NoLines)}

UpdateRequests ==
    {UpdateRequest(fs, MaxDate, NoLines) : fs \in {{}, ScalarFields}}
    \cup {UpdateRequest({"journal_lines"}, MaxDate, ls) : ls \in UpdateLineLists}
    \cup {UpdateRequest(ScalarFields \cup {"journal_lines"}, MaxDate, BalancedLines)}

\* update_journal_entry refusing every entry that is not a Draft
UpdateResultDraftOnly(id, upd) ==
    IF id \notin Ids THEN "NotFound"
    ELSE IF entries[id].status # "Draft" THEN "ImmutablePosted"
    ELSE IF "journal_lines" \notin upd.fields_set THEN "ok"
    ELSE IF FirstInvalid(upd.journal_lines) # 0 THEN "InvalidAccount"
    ELSE IF SumDebits(upd.journal_lines) # SumCredits(upd.journal_lines) THEN "Unbalanced"
    ELSE "ok"

\* update_journal_entry without the comparison of the totals
UpdateResultNoBalanceCheck(id, upd) ==
    IF id \notin Ids THEN "NotFound"
    ELSE IF entries[id].status = "Posted" THEN "ImmutablePosted"
    ELSE IF "journal_lines" \notin upd.fields_set THEN "ok"
    ELSE IF FirstInvalid(upd.journal_lines) # 0 THEN "InvalidAccount"
    ELSE "ok"

UpdateResultNoPostedCheck(id, upd) ==
    IF id \notin Ids THEN "NotFound"
    ELSE IF "journal_lines" \notin upd.fields_set THEN "ok"
    ELSE IF FirstInvalid(upd.journal_lines) # 0 THEN "InvalidAccount"
    ELSE IF SumDebits(upd.journal_lines) # SumCredits(upd.journal_lines) THEN "Unbalanced"
    ELSE "ok"

\* None for an unknown id; the accounts of the new lines are checked while the
\* lines are added, the balance after the last line
UpdateResult(id, upd) ==
    IF id \notin Ids THEN "NotFound"
    ELSE IF entries[id].status = "Posted" THEN "ImmutablePosted"
    ELSE IF "journal_lines" \notin upd.fields_set THEN "ok"
    ELSE IF FirstInvalid(upd.journal_lines) # 0 THEN "InvalidAccount"
    ELSE IF SumDebits(upd.journal_lines) # SumCredits(upd.journal_lines) THEN "Unbalanced"
    ELSE "ok"

UpdateDetail(id, upd) ==
    LET r == UpdateResult(id, upd)
        k == FirstInvalid(upd.journal_lines)
    IN  [debits |-> IF r = "Unbalanced" THEN SumDebits(upd.journal_lines) ELSE 0,
         credits |-> IF r = "Unbalanced" THEN SumCredits(upd.journal_lines) ELSE 0,
         account |-> IF r = "InvalidAccount" THEN upd.journal_lines[k].account_id ELSE 0]

\* setattr of every field of the request but journal_lines
WithScalarsAll(e, upd) ==
    [f \in DOMAIN e |-> IF f \in ScalarFields THEN upd[f] ELSE e[f]]

\* setattr of every supplied field but journal_lines
WithScalars(e, upd) ==
    [f \in DOMAIN e |->
        IF f \in ScalarFields /\ f \in upd.fields_set THEN upd[f] ELSE e[f]]

\* the totals of the replaced line set
WithTotals(e, upd) ==
    IF "journal_lines" \in upd.fields_set
    THEN [e EXCEPT !.total_debits = Quantize(SumDebits(upd.journal_lines)),
                   !.total_credits = Quantize(SumCredits(upd.journal_lines)),
                   !.is_balanced =
                       (SumDebits(upd.journal_lines) = SumCredits(upd.journal_lines))]
    ELSE e

\* the call on one entry: commit of the fields, the lines and the totals, or
\* rollback of everything
UpdateEntry(id, upd) ==
    LET r == UpdateResult(id, upd) IN
    /\ IF r = "ok"
       THEN /\ entries' =
                   [entries EXCEPT ![id] = WithTotals(WithScalars(entries[id], upd), upd)]
            /\ lines' = IF "journal_lines" \in upd.fields_set
                        THEN [lines EXCEPT ![id] = StoredLines(upd.journal_lines)]
                        ELSE lines
       ELSE UNCHANGED <<entries, lines>>
    /\ last' = [op |-> "update", id |-> id, result |-> r,
                detail |-> UpdateDetail(id, upd)]
    /\ UNCHANGED <<accounts, year, sess, invoices,
                   sales_orders, invoice_lines>>

update_journal_entry(ids, reqs) ==
    \E id \in ids, upd \in reqs : UpdateEntry(id, upd)

----------------------------------------------------------------------------
(* JournalService.create_reversing_entry *)

ReverseResultAnyStatus(id) ==
    IF id \notin Ids THEN "NotFound" ELSE "ok"

ReverseResult(id) ==
    IF id \notin Ids THEN "NotFound"
    ELSE IF entries[id].status # "Posted" THEN "NotPosted"
    ELSE "ok"

ReversingLinesNotSwapped(id) ==
    [i \in 1..Len(lines[id]) |->
        [account_id |-> lines[id][i].account_id,
         line_number |-> lines[id][i].line_number,
         description |-> [text |-> "Reversal of ", num |-> entries[id].entry_number],
         debit_amount |-> lines[id][i].debit_amount,
         credit_amount |-> lines[id][i].credit_amount]]

\* one JournalLineCreate per line of the original, the amounts swapped
ReversingLines(id) ==
    [i \in 1..Len(lines[id]) |->
        [account_id |-> lines[id][i].account_id,
         line_number |-> lines[id][i].line_number,
         description |-> [text |-> "Reversal of ", num |-> entries[id].entry_number],
         debit_amount |-> lines[id][i].credit_amount,
         credit_amount |-> lines[id][i].debit_amount]]

ReversingEntry(id, reverse_date) ==
    [entry_date |-> reverse_date,
     reference |-> [text |-> "REV-", num |-> entries[id].entry_number],
     description |-> [text |-> "Reversing entry for ", num |-> entries[id].entry_number],
     entry_type |-> "System",
     journal_lines |-> ReversingLines(id)]

\* the call on one entry: the checks of the source, then create_journal_entry
ReverseEntry(id, reverse_date, cap) ==
    LET r == ReverseResult(id) IN
    IF r = "ok"
    THEN /\ Len(entries) < cap
         /\ CreateEntry("reverse", ReversingEntry(id, reverse_date))
    ELSE /\ last' = Returned("reverse", id, r)
         /\ UNCHANGED <<accounts, entries, lines, year, sess, invoices,
                        sales_orders, invoice_lines>>

create_reversing_entry(ids, dates, cap) ==
    \E id \in ids, reverse_date \in dates : ReverseEntry(id, reverse_date, cap)

----------------------------------------------------------------------------
(* Reporting *)

\* GeneralLedgerService.get_account_balance: the account is looked up and the
\* three balances are returned as the constants Decimal("0.00"); as_of_date is
\* only echoed
get_account_balance(account_id, as_of_date) ==
    IF account_id \notin DOMAIN accounts
    THEN [result |-> "NotFound", account_id |-> account_id, account_code |-> 0,
          debit_balance |-> 0, credit_balance |-> 0, net_balance |-> 0]
    ELSE [result |-> "ok", account_id |-> account_id,
          account_code |-> accounts[account_id].account_code,
          debit_balance |-> 0, credit_balance |-> 0, net_balance |-> 0]

\* the entries whose lines count for a report as of a date (None: no upper
\* bound): the Posted ones dated up to it
Reported(i, as_of_date) ==
    /\ entries[i].status = "Posted"
    /\ as_of_date = None \/ entries[i].entry_date <= as_of_date

AccountLines(ls, a) == SelectSeq(ls, LAMBDA l : l.account_id = a)

\* the debit and the credit amounts of account a over the lines of the
\* reported entries among those of the set among
PostedDebits(a, as_of_date, among) ==
    LET RECURSIVE Upto(_)
        Upto(i) ==
            IF i = 0 THEN 0
            ELSE (IF i \in among /\ Reported(i, as_of_date)
                  THEN SumDebits(AccountLines(lines[i], a)) ELSE 0) + Upto(i - 1)
    IN Upto(Len(entries))

PostedCredits(a, as_of_date, among) ==
    LET RECURSIVE Upto(_)
        Upto(i) ==
            IF i = 0 THEN 0
            ELSE (IF i \in among /\ Reported(i, as_of_date)
                  THEN SumCredits(AccountLines(lines[i], a)) ELSE 0) + Upto(i - 1)
    IN Upto(Len(entries))

\* net is signed by the normal balance of the account
PostedNet(a, as_of_date, among) ==
    IF accounts[a].normal_balance = "Debit"
    THEN PostedDebits(a, as_of_date, among) - PostedCredits(a, as_of_date, among)
    ELSE PostedCredits(a, as_of_date, among) - PostedDebits(a, as_of_date, among)

\* ReportingService.generate_trial_balance: one row per account with activity
generate_trial_balance(as_of_date) ==
    [a \in {b \in DOMAIN accounts :
                \/ PostedDebits(b, as_of_date, Ids) # 0
                \/ PostedCredits(b, as_of_date, Ids) # 0} |->
        [debit |-> PostedDebits(a, as_of_date, Ids),
         credit |-> PostedCredits(a, as_of_date, Ids)]]

RECURSIVE SumDebitColumn(_, _)
SumDebitColumn(rows, as) ==
    IF as = {} THEN 0
    ELSE LET a == CHOOSE b \in as : TRUE
         IN rows[a].debit + SumDebitColumn(rows, as \ {a})

RECURSIVE SumCreditColumn(_, _)
SumCreditColumn(rows, as) ==
    IF as = {} THEN 0
    ELSE LET a == CHOOSE b \in as : TRUE
         IN rows[a].credit + SumCreditColumn(rows, as \ {a})

----------------------------------------------------------------------------
(* One call at a time *)

Init ==
    /\ accounts = InitialAccounts
    /\ entries = <<>>
    /\ lines = <<>>
    /\ year = 1
    /\ last = Returned("none", 0, "ok")
    /\ sess = <<>>
    /\ invoices = NoInvoices
    /\ sales_orders = <<>>
    /\ invoice_lines = <<>>

Next ==
    \/ create_journal_entry(CreateRequests, MaxEntries)
    \/ update_journal_entry(EntryIds, UpdateRequests)
    \/ post_journal_entry(EntryIds)
    \/ void_journal_entry(EntryIds)
    \/ create_reversing_entry(EntryIds, {MaxDate}, MaxEntries)

Spec == Init /\ [][Next]_vars

----------------------------------------------------------------------------
(* One call at a time, three entries: the numbering *)

NextNum ==
    \/ create_journal_entry(NumCreateRequests, MaxNumbered)
    \/ update_journal_entry(NumEntryIds, NumUpdateRequests)
    \/ post_journal_entry(NumEntryIds)
    \/ create_reversing_entry(NumEntryIds, {MaxDate}, MaxNumbered)

SpecNum == Init /\ [][NextNum]_vars

----------------------------------------------------------------------------
(* One call at a time over the change of the calendar year; an entry date  *)
(* d is a day of year d                                                    *)

YearEntryIds == 1..(MaxYearEntries + 1)

YearCreateRequests ==
    {JournalEntryCreate(d, ls) : d \in Dates, ls \in {NoLines, BalancedLines}}

\* datetime.utcnow().year becomes the next year
NewYear ==
    /\ year < MaxYear
    /\ year' = year + 1
    /\ UNCHANGED <<accounts, entries, lines, last, sess, invoices,
                   sales_orders, invoice_lines>>

NextYear ==
    \/ create_journal_entry(YearCreateRequests, MaxYearEntries)
    \/ post_journal_entry(YearEntryIds)
    \/ NewYear

SpecYear == Init /\ [][NextYear]_vars

----------------------------------------------------------------------------
(* Two sessions, step by step.  Each request has its own Session (get_db);  *)
(* a session reads committed rows only, an UPDATE or INSERT it has flushed  *)
(* is held by the database until its commit, and a second writer of the     *)
(* same row or the same unique key waits for that commit.                   *)

Sessions == {1, 2}

ConcCreateRequests ==
    {JournalEntryCreate(1, ls) :
        ls \in {NoLines, BalancedLines, UnbalancedLines, InactiveAccountLines}}

\* what a reader holds before it has read a row
NoHeader == [status |-> "none", total_debits |-> 0, total_credits |-> 0]

Idle ==
    [pc |-> "idle", op |-> "none", id |-> 0, req |-> JournalEntryCreate(1, NoLines),
     number |-> NoNumber, result |-> "none",
     upd |-> UpdateRequest({}, MaxDate, NoLines), header |-> NoHeader, seen |-> <<>>]

\* another session has flushed a write of the row of entry id and not yet
\* committed it
RowHeld(p, id) ==
    \E q \in Sessions \ {p} :
        /\ sess[q].pc \in {"post_flushed", "void_flushed", "update_flushed"}
        /\ sess[q].id = id

Free(p) == sess[p].pc \in {"idle", "done"}

Finished(p, r) == [sess[p] EXCEPT !.pc = "done", !.result = r]

\* _generate_entry_number and the balance check (journal_service.py 22-30)
CreateCountOf(p, reqs, cap) ==
    \E req \in reqs :
        /\ Free(p)
        /\ Len(entries) + Cardinality({q \in Sessions : sess[q].op = "create"
                                          /\ ~Free(q)}) < cap
        /\ LET s == [Idle EXCEPT !.op = "create", !.req = req,
                                 !.number = GenerateEntryNumber]
           IN sess' = [sess EXCEPT ![p] =
                  IF SumDebits(req.journal_lines) # SumCredits(req.journal_lines)
                  THEN [s EXCEPT !.pc = "done", !.result = "Unbalanced"]
                  ELSE [s EXCEPT !.pc = "create_counted"]]
        /\ UNCHANGED <<accounts, entries, lines, year, last, invoices,
                       sales_orders, invoice_lines>>

CreateCount(p) == CreateCountOf(p, ConcCreateRequests, MaxEntries)

\* db.add(db_entry); db.flush(): the INSERT of the header (45-46); it waits
\* while another session holds an uncommitted row with the same entry_number
CreateFlush(p) ==
    /\ sess[p].pc = "create_counted"
    /\ \A q \in Sessions \ {p} :
          ~(/\ sess[q].pc \in {"create_flushed", "create_checked"}
            /\ sess[q].number = sess[p].number)
    /\ sess' = [sess EXCEPT ![p] =
                  IF UniqueViolation(sess[p].number)
                  THEN Finished(p, "IntegrityError")
                  ELSE [sess[p] EXCEPT !.pc = "create_flushed"]]
    /\ UNCHANGED <<accounts, entries, lines, year, last, invoices,
                   sales_orders, invoice_lines>>

\* the loop over the lines (49-70): the query of each account, which reads
\* committed rows and locks none, and db.rollback() (79) when one is missing
\* or inactive
CreateLines(p) ==
    /\ sess[p].pc = "create_flushed"
    /\ sess' = [sess EXCEPT ![p] =
                  IF FirstInvalid(sess[p].req.journal_lines) # 0
                  THEN Finished(p, "InvalidAccount")
                  ELSE [sess[p] EXCEPT !.pc = "create_checked"]]
    /\ UNCHANGED <<accounts, entries, lines, year, last, invoices,
                   sales_orders, invoice_lines>>

\* db.commit() (72)
CreateCommit(p) ==
    /\ sess[p].pc = "create_checked"
    /\ entries' = Append(entries, EntryRow(sess[p].req, sess[p].number))
    /\ lines' = Append(lines, StoredLines(sess[p].req.journal_lines))
    /\ sess' = [sess EXCEPT ![p] =
                  [sess[p] EXCEPT !.pc = "done", !.result = "ok",
                                  !.id = Len(entries) + 1]]
    /\ UNCHANGED <<accounts, year, last, invoices,
                   sales_orders, invoice_lines>>

\* the query of the entry and the checks on the loaded object (225-239)
PostQueryOf(p, ids) ==
    \E id \in ids :
        /\ Free(p)
        /\ LET s == [Idle EXCEPT !.op = "post", !.id = id]
           IN sess' = [sess EXCEPT ![p] =
                  IF PostResult(id) = "ok"
                  THEN [s EXCEPT !.pc = "post_loaded"]
                  ELSE [s EXCEPT !.pc = "done", !.result = PostResult(id)]]
        /\ UNCHANGED <<accounts, entries, lines, year, last, invoices,
                       sales_orders, invoice_lines>>

PostQuery(p) == PostQueryOf(p, EntryIds)

\* the UPDATE of the row that db.commit() flushes (242-250): it sets the
\* status whatever the row holds by now, and waits for a session that has
\* flushed an UPDATE of the same row
PostFlush(p) ==
    /\ sess[p].pc = "post_loaded"
    /\ ~RowHeld(p, sess[p].id)
    /\ sess' = [sess EXCEPT ![p].pc = "post_flushed"]
    /\ UNCHANGED <<accounts, entries, lines, year, last, invoices,
                   sales_orders, invoice_lines>>

\* the commit (250) and return True (253)
PostCommit(p) ==
    /\ sess[p].pc = "post_flushed"
    /\ entries' = [entries EXCEPT ![sess[p].id].status = "Posted",
                                  ![sess[p].id].posted_at = year]
    /\ sess' = [sess EXCEPT ![p] = Finished(p, "ok")]
    /\ UNCHANGED <<accounts, lines, year, last, invoices,
                   sales_orders, invoice_lines>>

InitConc ==
    /\ accounts = InitialAccounts
    /\ entries = <<>>
    /\ lines = <<>>
    /\ year = 1
    /\ last = Returned("none", 0, "ok")
    /\ sess = [p \in Sessions |-> Idle]
    /\ invoices = NoInvoices
    /\ sales_orders = <<>>
    /\ invoice_lines = <<>>

NextConc ==
    \E p \in Sessions :
        \/ CreateCount(p)
        \/ CreateFlush(p)
        \/ CreateLines(p)
        \/ CreateCommit(p)
        \/ PostQuery(p)
        \/ PostFlush(p)
        \/ PostCommit(p)

SpecConc == InitConc /\ [][NextConc]_vars

----------------------------------------------------------------------------
(* The chart of accounts: GeneralLedgerService *)

AccountIds == DOMAIN accounts

\* the account ids a caller may pass: one more than can be stored, so that an
\* unknown id always exists
AccountIdArgs == 1..(MaxAccounts + 1)

Codes == 1..MaxAccounts

\* what a call on the chart returned or raised; children is the count of the
\* message of delete_account
AccountReturned(op, id, result, children) ==
    [op |-> op, id |-> id, result |-> result, children |-> children]

\* a value that an if statement takes as true
Truthy(v) == v # None /\ v # 0

\* parent_account_id = Column(Integer, ForeignKey("chart_of_accounts.id")): the
\* reference is checked at the commit by a database that enforces foreign
\* keys and is not checked by one that does not
ForeignKeyEnforced == BOOLEAN

ForeignKeyViolation(parent) == parent # None /\ parent \notin AccountIds

\* ChartOfAccountsCreate
ChartOfAccountsCreate(code, parent) == Account(code, parent, TRUE, "Debit")

AccountCreateRequests ==
    {ChartOfAccountsCreate(code, parent) :
        code \in Codes, parent \in {None, 0} \cup AccountIdArgs}

\* create_account with a search for the code among the active accounts only;
\* the unique index of account_code refuses the insert
CreateAccountResultActiveOnly(req, fk) ==
    IF \E a \in AccountIds : /\ accounts[a].account_code = req.account_code
                             /\ accounts[a].is_active
    THEN "DuplicateCode"
    ELSE IF Truthy(req.parent_account_id) /\ req.parent_account_id \notin AccountIds
    THEN "ParentNotFound"
    ELSE IF \E a \in AccountIds : accounts[a].account_code = req.account_code
    THEN "IntegrityError"
    ELSE IF fk /\ ForeignKeyViolation(req.parent_account_id) THEN "IntegrityError"
    ELSE "ok"

\* what create_account raises, "ok" when it returns the account: the search
\* for the code, the search for the parent when the id given is truthy, then
\* the commit against the unique index and the foreign key
CreateAccountResult(req, fk) ==
    IF \E a \in AccountIds : accounts[a].account_code = req.account_code
    THEN "DuplicateCode"
    ELSE IF Truthy(req.parent_account_id) /\ req.parent_account_id \notin AccountIds
    THEN "ParentNotFound"
    ELSE IF \E a \in AccountIds : accounts[a].account_code = req.account_code
    THEN "IntegrityError"
    ELSE IF fk /\ ForeignKeyViolation(req.parent_account_id) THEN "IntegrityError"
    ELSE "ok"

CreateAccount(req, fk) ==
    LET r == CreateAccountResult(req, fk) IN
    /\ accounts' = IF r = "ok" THEN Append(accounts, req) ELSE accounts
    /\ last' = AccountReturned("create_account",
                               IF r = "ok" THEN Len(accounts) + 1 ELSE 0, r, 0)
    /\ UNCHANGED <<entries, lines, year, sess, invoices,
                   sales_orders, invoice_lines>>

create_account ==
    \E req \in AccountCreateRequests, fk \in ForeignKeyEnforced :
        /\ Len(accounts) < MaxAccounts
        /\ CreateAccount(req, fk)

\* ChartOfAccountsUpdate: every field optional, account_code is not among
\* them; fields_set names the fields the caller supplied
ChartOfAccountsUpdate(fs, parent, active) ==
    [fields_set |-> fs, account_name |-> "name2", parent_account_id |-> parent,
     is_active |-> active, normal_balance |-> "Credit"]

AccountUpdateRequests ==
    {ChartOfAccountsUpdate({}, None, TRUE)}
    \cup {ChartOfAccountsUpdate({"parent_account_id"}, parent, TRUE) :
            parent \in {None} \cup AccountIdArgs}
    \cup {ChartOfAccountsUpdate({"is_active"}, None, active) : active \in BOOLEAN}

\* setattr of every supplied field
WithAccountFields(acc, upd) ==
    [f \in DOMAIN acc |-> IF f \in upd.fields_set THEN upd[f] ELSE acc[f]]

\* None for an unknown id; no check is made before the commit
UpdateAccountResult(id, upd, fk) ==
    IF id \notin AccountIds THEN "NotFound"
    ELSE IF /\ fk
            /\ "parent_account_id" \in upd.fields_set
            /\ ForeignKeyViolation(upd.parent_account_id)
    THEN "IntegrityError"
    ELSE "ok"

UpdateAccount(id, upd, fk) ==
    LET r == UpdateAccountResult(id, upd, fk) IN
    /\ accounts' = IF r = "ok"
                   THEN [accounts EXCEPT ![id] = WithAccountFields(accounts[id], upd)]
                   ELSE accounts
    /\ last' = AccountReturned("update_account", id, r, 0)
    /\ UNCHANGED <<entries, lines, year, sess, invoices,
                   sales_orders, invoice_lines>>

update_account ==
    \E id \in AccountIdArgs, upd \in AccountUpdateRequests, fk \in ForeignKeyEnforced :
        UpdateAccount(id, upd, fk)

\* the count of the active accounts whose parent is the account
ActiveChildren(id) ==
    Cardinality({a \in AccountIds : /\ accounts[a].parent_account_id = id
                                    /\ accounts[a].is_active})

DeleteAccountResultNoChildCheck(id) ==
    IF id \notin AccountIds THEN "NotFound" ELSE "ok"

\* False for an unknown id, ValueError when active child accounts exist
DeleteAccountResult(id) ==
    IF id \notin AccountIds THEN "NotFound"
    ELSE IF ActiveChildren(id) > 0 THEN "HasActiveChildren"
    ELSE "ok"

\* the soft delete
DeleteAccount(id) ==
    LET r == DeleteAccountResult(id) IN
    /\ accounts' = IF r = "ok" THEN [accounts EXCEPT ![id].is_active = FALSE]
                   ELSE accounts
    /\ last' = AccountReturned("delete_account", id, r,
                               IF r = "HasActiveChildren" THEN ActiveChildren(id) ELSE 0)
    /\ UNCHANGED <<entries, lines, year, sess, invoices,
                   sales_orders, invoice_lines>>

delete_account == \E id \in AccountIdArgs : DeleteAccount(id)

InitAcct ==
    /\ accounts = <<>>
    /\ entries = <<>>
    /\ lines = <<>>
    /\ year = 1
    /\ last = AccountReturned("none", 0, "ok", 0)
    /\ sess = <<>>
    /\ invoices = NoInvoices
    /\ sales_orders = <<>>
    /\ invoice_lines = <<>>

NextAcct ==
    \/ create_account
    \/ update_account
    \/ delete_account

SpecAcct == InitAcct /\ [][NextAcct]_vars

----------------------------------------------------------------------------
(* The chart of accounts with the reading of its hierarchy                 *)

\* the rows of the query: with an account_id that an if takes as true, the
\* active rows that are the account or have it as parent; without, the
\* active rows that have no parent
Fetched(account_id) ==
    IF Truthy(account_id)
    THEN {a \in AccountIds :
            /\ a = account_id \/ accounts[a].parent_account_id = account_id
            /\ accounts[a].is_active}
    ELSE {a \in AccountIds :
            accounts[a].parent_account_id = None /\ accounts[a].is_active}

\* order_by(ChartOfAccounts.account_code)
RECURSIVE OrderByCode(_)
OrderByCode(S) ==
    IF S = {} THEN <<>>
    ELSE LET first == CHOOSE a \in S : \A b \in S \ {a} :
                          \/ accounts[a].account_code < accounts[b].account_code
                          \/ /\ accounts[a].account_code = accounts[b].account_code
                             /\ a < b
         IN <<first>> \o OrderByCode(S \ {first})

\* the rows of the list whose parent is parent_id, each with the same of its
\* own id below it
RECURSIVE build_hierarchy(_, _)
build_hierarchy(account_list, parent_id) ==
    LET below == SelectSeq(account_list,
                           LAMBDA a : accounts[a].parent_account_id = parent_id)
    IN [i \in 1..Len(below) |->
           [id |-> below[i],
            account_code |-> accounts[below[i]].account_code,
            account_name |-> accounts[below[i]].account_name,
            normal_balance |-> accounts[below[i]].normal_balance,
            children |-> build_hierarchy(account_list, below[i])]]

Hierarchy(account_id) == build_hierarchy(OrderByCode(Fetched(account_id)), None)

get_account_hierarchy ==
    \E account_id \in AccountIdArgs \cup {None} :
        /\ last' = [op |-> "get_account_hierarchy", id |-> account_id,
                    result |-> "ok", hierarchy |-> Hierarchy(account_id)]
        /\ UNCHANGED <<accounts, entries, lines, year, sess, invoices,
                       sales_orders, invoice_lines>>

NextTree ==
    \/ create_account
    \/ update_account
    \/ delete_account
    \/ get_account_hierarchy

SpecTree == InitAcct /\ [][NextTree]_vars

----------------------------------------------------------------------------
(* The aging reports of the receivable and the payable service.  Each      *)
(* service has its own invoices table; a behaviour holds the table of one  *)
(* of them.  Dates are day numbers.                                        *)

\* the limits of the buckets, in days overdue
CurrentDays == 0
Days30 == 30
Days60 == 60
Days90 == 90

\* as_of_date values one day apart, and due dates that lie one day after the
\* earlier one, on it, and the three limits before it
AsOfDates == {1 + Days90, 2 + Days90}

DueDates == {1, 1 + Days90 - Days60, 1 + Days90 - Days30, 1 + Days90, 2 + Days90}

InvoiceTotal == 100

PaidAmounts == {40, InvoiceTotal}

PartyIds == {1, 2}

PartyArgs == {None, 1}

ReceivableInvoices ==
    [status : {"Draft", "Sent"}, due_date : DueDates,
     total_amount : {InvoiceTotal}, paid_amount : PaidAmounts,
     customer_id : PartyIds]

PayableInvoices ==
    [status : {"Draft", "Approved"}, due_date : DueDates,
     total_amount : {InvoiceTotal}, paid_amount : PaidAmounts,
     vendor_id : PartyIds]

\* the tables of at most MaxInvoices rows
Tables(rows) == UNION {[1..n -> rows] : n \in 0..MaxInvoices}

BucketNames == {"current", "1_30_days", "31_60_days", "61_90_days", "over_90_days"}

EmptyBuckets == [b \in BucketNames |-> [amount |-> 0, count |-> 0]]

OutstandingIsTotal(invoice) == invoice.total_amount

Outstanding(invoice) == invoice.total_amount - invoice.paid_amount

Bucket(days_overdue) ==
    IF days_overdue <= CurrentDays THEN "current"
    ELSE IF days_overdue <= Days30 THEN "1_30_days"
    ELSE IF days_overdue <= Days60 THEN "31_60_days"
    ELSE IF days_overdue <= Days90 THEN "61_90_days"
    ELSE "over_90_days"

\* the loop over the invoices of the query, from invoice k on
RECURSIVE AgingLoop(_, _, _, _, _)
AgingLoop(invs, as_of_date, k, aging_buckets, total_outstanding) ==
    IF k > Len(invs)
    THEN [aging_buckets |-> aging_buckets, total_outstanding |-> total_outstanding]
    ELSE LET outstanding_amount == Outstanding(invs[k])
             bucket == Bucket(as_of_date - invs[k].due_date)
         IN AgingLoop(invs, as_of_date, k + 1,
                      [aging_buckets EXCEPT
                          ![bucket].amount = @ + outstanding_amount,
                          ![bucket].count = @ + 1],
                      total_outstanding + outstanding_amount)

\* the rows of the query of the receivable service
ReceivableQuery(as_of_date, customer_id) ==
    SelectSeq(invoices.rows,
              LAMBDA i : /\ i.status = "Sent"
                         /\ i.due_date <= as_of_date
                         /\ i.paid_amount < i.total_amount
                         /\ Truthy(customer_id) => i.customer_id = customer_id)

\* the rows of the query of the payable service
PayableQuery(as_of_date, vendor_id) ==
    SelectSeq(invoices.rows,
              LAMBDA i : /\ i.status = "Approved"
                         /\ i.due_date <= as_of_date
                         /\ i.paid_amount < i.total_amount
                         /\ Truthy(vendor_id) => i.vendor_id = vendor_id)

AgingReport(invs, as_of_date, party) ==
    LET done == AgingLoop(invs, as_of_date, 1, EmptyBuckets, 0) IN
    [as_of_date |-> as_of_date, party |-> party,
     aging_buckets |-> done.aging_buckets,
     total_outstanding |-> done.total_outstanding,
     total_invoices |-> Len(invs)]

receivable_aging_report ==
    /\ invoices.service = "receivable"
    /\ \E as_of_date \in AsOfDates, customer_id \in PartyArgs :
          last' = [op |-> "aging", id |-> 0, result |-> "ok",
                   report |-> AgingReport(ReceivableQuery(as_of_date, customer_id),
                                          as_of_date, customer_id)]
    /\ UNCHANGED <<accounts, entries, lines, year, sess, invoices,
                   sales_orders, invoice_lines>>

payable_aging_report ==
    /\ invoices.service = "payable"
    /\ \E as_of_date \in AsOfDates, vendor_id \in PartyArgs :
          last' = [op |-> "aging", id |-> 0, result |-> "ok",
                   report |-> AgingReport(PayableQuery(as_of_date, vendor_id),
                                          as_of_date, vendor_id)]
    /\ UNCHANGED <<accounts, entries, lines, year, sess, invoices,
                   sales_orders, invoice_lines>>

InitAging ==
    /\ accounts = <<>>
    /\ entries = <<>>
    /\ lines = <<>>
    /\ year = 1
    /\ last = Returned("none", 0, "ok")
    /\ sess = <<>>
    /\ \/ \E rows \in Tables(ReceivableInvoices) :
             invoices = [service |-> "receivable", rows |-> rows]
       \/ \E rows \in Tables(PayableInvoices) :
             invoices = [service |-> "payable", rows |-> rows]
    /\ sales_orders = <<>>
    /\ invoice_lines = <<>>

NextAging ==
    \/ receivable_aging_report
    \/ payable_aging_report

SpecAging == InitAging /\ [][NextAging]_vars

----------------------------------------------------------------------------
(* Two sessions, step by step: the calls of SpecConc with voids, updates,  *)
(* readers and deactivations of accounts                                   *)

RaceEntryIds == 1..(MaxRaced + 1)

RaceCreateRequests == {JournalEntryCreate(1, BalancedLines)}

RaceUpdateRequests == {UpdateRequest({"journal_lines"}, MaxDate, OneLineBothSides)}

\* the query of the entry and the checks on the loaded object (264-275)
VoidQuery(p) ==
    \E id \in RaceEntryIds :
        /\ Free(p)
        /\ LET s == [Idle EXCEPT !.op = "void", !.id = id]
           IN sess' = [sess EXCEPT ![p] =
                  IF VoidResult(id) = "ok"
                  THEN [s EXCEPT !.pc = "void_loaded"]
                  ELSE [s EXCEPT !.pc = "done", !.result = VoidResult(id)]]
        /\ UNCHANGED <<accounts, entries, lines, year, last, invoices,
                       sales_orders, invoice_lines>>

\* the UPDATE of the row that db.commit() flushes (278-282): it sets the
\* status whatever the row holds by now, and waits for a session that has
\* flushed a write of the same row
VoidFlush(p) ==
    /\ sess[p].pc = "void_loaded"
    /\ ~RowHeld(p, sess[p].id)
    /\ sess' = [sess EXCEPT ![p].pc = "void_flushed"]
    /\ UNCHANGED <<accounts, entries, lines, year, last, invoices,
                   sales_orders, invoice_lines>>

\* the commit (282) and return True
VoidCommit(p) ==
    /\ sess[p].pc = "void_flushed"
    /\ entries' = [entries EXCEPT ![sess[p].id].status = "Void"]
    /\ sess' = [sess EXCEPT ![p] = Finished(p, "ok")]
    /\ UNCHANGED <<accounts, lines, year, last, invoices,
                   sales_orders, invoice_lines>>

\* the query of the entry and the check of its status (145-154)
UpdateQuery(p) ==
    \E id \in RaceEntryIds, upd \in RaceUpdateRequests :
        /\ Free(p)
        /\ LET s == [Idle EXCEPT !.op = "update", !.id = id, !.upd = upd]
           IN sess' = [sess EXCEPT ![p] =
                  IF id \notin Ids THEN [s EXCEPT !.pc = "done", !.result = "NotFound"]
                  ELSE IF entries[id].status = "Posted"
                       THEN [s EXCEPT !.pc = "done", !.result = "ImmutablePosted"]
                       ELSE [s EXCEPT !.pc = "update_loaded"]]
        /\ UNCHANGED <<accounts, entries, lines, year, last, invoices,
                       sales_orders, invoice_lines>>

\* the DELETE of the old lines, the loop over the new ones and the totals
\* (164-205), all in the open transaction, or db.rollback() (217)
UpdateFlush(p) ==
    /\ sess[p].pc = "update_loaded"
    /\ ~RowHeld(p, sess[p].id)
    /\ LET ls == sess[p].upd.journal_lines IN
       sess' = [sess EXCEPT ![p] =
                  IF FirstInvalid(ls) # 0 THEN Finished(p, "InvalidAccount")
                  ELSE IF SumDebits(ls) # SumCredits(ls) THEN Finished(p, "Unbalanced")
                  ELSE [sess[p] EXCEPT !.pc = "update_flushed"]]
    /\ UNCHANGED <<accounts, entries, lines, year, last, invoices,
                   sales_orders, invoice_lines>>

\* db.commit() (210): the changed columns of the row and the new lines
UpdateCommit(p) ==
    /\ sess[p].pc = "update_flushed"
    /\ entries' = [entries EXCEPT ![sess[p].id] =
                      WithTotals(WithScalars(entries[sess[p].id], sess[p].upd),
                                 sess[p].upd)]
    /\ lines' = [lines EXCEPT ![sess[p].id] = StoredLines(sess[p].upd.journal_lines)]
    /\ sess' = [sess EXCEPT ![p] = Finished(p, "ok")]
    /\ UNCHANGED <<accounts, year, last, invoices,
                   sales_orders, invoice_lines>>

\* get_journal_entry: the SELECT of the row (126-128)
ReadHeader(p) ==
    \E id \in RaceEntryIds :
        /\ Free(p)
        /\ LET s == [Idle EXCEPT !.op = "get", !.id = id]
           IN sess' = [sess EXCEPT ![p] =
                  IF id \notin Ids THEN [s EXCEPT !.pc = "done", !.result = "NotFound"]
                  ELSE [s EXCEPT !.pc = "read_header", !.header = entries[id]]]
        /\ UNCHANGED <<accounts, entries, lines, year, last, invoices,
                       sales_orders, invoice_lines>>

\* the SELECT of the journal_lines relationship, which is loaded when the
\* response model reads the attribute (journal_entries.py 33, 109)
ReadLines(p) ==
    /\ sess[p].pc = "read_header"
    /\ sess' = [sess EXCEPT ![p] =
                  [sess[p] EXCEPT !.pc = "done", !.result = "ok",
                                  !.seen = lines[sess[p].id]]]
    /\ UNCHANGED <<accounts, entries, lines, year, last, invoices,
                   sales_orders, invoice_lines>>

\* delete_account of another request, query and commit in one step
Deactivate(p) ==
    \E id \in DOMAIN accounts :
        /\ Free(p)
        /\ accounts' = IF DeleteAccountResult(id) = "ok"
                       THEN [accounts EXCEPT ![id].is_active = FALSE]
                       ELSE accounts
        /\ sess' = [sess EXCEPT ![p] =
                      [Idle EXCEPT !.op = "delete_account", !.id = id, !.pc = "done",
                                   !.result = DeleteAccountResult(id)]]
        /\ UNCHANGED <<entries, lines, year, last, invoices,
                       sales_orders, invoice_lines>>

NextRace ==
    \E p \in Sessions :
        \/ CreateCountOf(p, RaceCreateRequests, MaxRaced)
        \/ CreateFlush(p)
        \/ CreateLines(p)
        \/ CreateCommit(p)
        \/ PostQueryOf(p, RaceEntryIds)
        \/ PostFlush(p)
        \/ PostCommit(p)
        \/ VoidQuery(p)
        \/ VoidFlush(p)
        \/ VoidCommit(p)
        \/ UpdateQuery(p)
        \/ UpdateFlush(p)
        \/ UpdateCommit(p)
        \/ ReadHeader(p)
        \/ ReadLines(p)
        \/ Deactivate(p)

SpecRace == InitConc /\ [][NextRace]_vars

----------------------------------------------------------------------------
(* AccountsReceivableService.generate_invoice_from_order, one call at a    *)
(* time over a table of sales orders                                       *)

\* date.today(), a day number
InvoiceDate == 1

\* timedelta(days=30)
InvoiceTerms == 30

OrderTotal == 100

\* the SalesOrderLine rows of an order: none or one
OrderLineLists == {<<>>, <<[item_code |-> 1, line_total |-> OrderTotal]>>}

SalesOrders ==
    [status : {"Draft", "Approved", "Shipped", "Cancelled"},
     customer_id : {1}, total_amount : {OrderTotal}, so_lines : OrderLineLists]

OrderTables == UNION {[1..n -> SalesOrders] : n \in 0..MaxOrders}

\* the so_id a caller may pass: one more than can be stored
OrderIdArgs == 1..(MaxOrders + 1)

\* _generate_invoice_number: the count of the invoices created in the year
GenerateInvoiceNumber ==
    [year |-> year,
     seq |-> Cardinality({i \in 1..Len(invoices.rows) :
                             invoices.rows[i].created_at = year}) + 1]

\* generate_invoice_from_order without the query for an invoice of the order
GenerateInvoiceResultNoExistingCheck(so_id) ==
    IF so_id \notin DOMAIN sales_orders THEN "NotFound"
    ELSE IF sales_orders[so_id].status \notin {"Approved", "Shipped"} THEN "WrongStatus"
    ELSE IF sales_orders[so_id].so_lines # <<>> THEN "NameError"
    ELSE "ok"

\* what the call raises, "ok" when it returns the invoice.  The name
\* InvoiceLine is not imported by the module of the service, so its first
\* use, in the loop over the lines of the order, raises NameError.
GenerateInvoiceResult(so_id) ==
    IF so_id \notin DOMAIN sales_orders THEN "NotFound"
    ELSE IF sales_orders[so_id].status \notin {"Approved", "Shipped"} THEN "WrongStatus"
    ELSE IF \E i \in 1..Len(invoices.rows) : invoices.rows[i].sales_order_id = so_id
         THEN "InvoiceExists"
    ELSE IF sales_orders[so_id].so_lines # <<>> THEN "NameError"
    ELSE "ok"

\* the Invoice row of the order
InvoiceOfOrder(so_id) ==
    [invoice_number |-> GenerateInvoiceNumber,
     customer_id |-> sales_orders[so_id].customer_id,
     sales_order_id |-> so_id,
     invoice_date |-> InvoiceDate,
     due_date |-> InvoiceDate + InvoiceTerms,
     status |-> "Draft",
     total_amount |-> sales_orders[so_id].total_amount,
     created_at |-> year]

\* the call: commit of the invoice, or rollback of the flushed invoice when
\* anything was raised; no invoice line is ever added
GenerateInvoice(so_id) ==
    LET r == GenerateInvoiceResult(so_id) IN
    /\ invoices' = IF r = "ok"
                   THEN [invoices EXCEPT !.rows = Append(@, InvoiceOfOrder(so_id))]
                   ELSE invoices
    /\ last' = [op |-> "generate_invoice", id |-> so_id, result |-> r,
                invoice_id |-> IF r = "ok" THEN Len(invoices.rows) + 1 ELSE 0]
    /\ UNCHANGED <<accounts, entries, lines, year, sess, sales_orders, invoice_lines>>

generate_invoice_from_order == \E so_id \in OrderIdArgs : GenerateInvoice(so_id)

InitOrders ==
    /\ accounts = <<>>
    /\ entries = <<>>
    /\ lines = <<>>
    /\ year = 1
    /\ last = Returned("none", 0, "ok")
    /\ sess = <<>>
    /\ invoices = [service |-> "receivable", rows |-> <<>>]
    /\ sales_orders \in OrderTables
    /\ invoice_lines = <<>>

NextOrders == generate_invoice_from_order

SpecOrders == InitOrders /\ [][NextOrders]_vars

----------------------------------------------------------------------------
(* One call at a time, the journal together with the deactivation of       *)
(* accounts                                                                *)

FrameEntryIds == 1..(MaxFramed + 1)

FrameCreateRequests ==
    {JournalEntryCreate(1, ls) : ls \in {BalancedLines, InactiveAccountLines}}

\* updates of some of the scalar fields, and of the lines
FrameUpdateRequests ==
    {UpdateRequest(fs, MaxDate, NoLines) :
        fs \in {{"reference"}, {"entry_date", "entry_type"}}}
    \cup {UpdateRequest({"journal_lines"}, MaxDate, OneLineBothSides)}

NextFrame ==
    \/ create_journal_entry(FrameCreateRequests, MaxFramed)
    \/ update_journal_entry(FrameEntryIds, FrameUpdateRequests)
    \/ post_journal_entry(FrameEntryIds)
    \/ void_journal_entry(FrameEntryIds)
    \/ delete_account

SpecFrame == Init /\ [][NextFrame]_vars

----------------------------------------------------------------------------
(* Properties *)

Balanced(ls) == SumDebits(ls) = SumCredits(ls)

\* C1: an entry starts as Draft and its status changes at most once, from
\* Draft to Posted or from Draft to Void; no call takes an entry from Posted
\* to Void, from Void to Posted or back to Draft, and no entry disappears.
C1_StatusChangesOnce ==
    [][/\ Len(entries') >= Len(entries)
       /\ \A i \in Ids :
             entries'[i].status # entries[i].status
               => /\ entries[i].status = "Draft"
                  /\ entries'[i].status \in {"Posted", "Void"}
       /\ \A i \in (1..Len(entries')) \ Ids : entries'[i].status = "Draft"]_vars

C1_Witness ==
    /\ last.op = "void" /\ last.result = "CannotVoidPosted"
    /\ \E i \in Ids : entries[i].status = "Void"

\* C2: two post calls on the same entry never both return success (the one
\* that comes second fails with AlreadyPosted).
C2_ExactlyOnePostSucceeds ==
    \A p \in Sessions : \A q \in Sessions \ {p} :
        (/\ sess[p].op = "post" /\ sess[q].op = "post"
         /\ sess[p].id = sess[q].id
         /\ sess[p].pc = "done" /\ sess[q].pc = "done"
         /\ sess[p].result = "ok")
        => sess[q].result # "ok"

\* C3: a post call fails with NotFound for an unknown id, else with
\* AlreadyPosted for a Posted entry, else with CannotPostVoid for a Void
\* entry, else with Unbalanced when the totals differ, and succeeds
\* otherwise; a failed call leaves every entry and every line as it was, a
\* successful one makes the entry Posted.
C3_PostOutcome ==
    [][last'.op = "post" =>
        LET id == last'.id IN
        /\ last'.result =
              IF id \notin Ids THEN "NotFound"
              ELSE IF entries[id].status = "Posted" THEN "AlreadyPosted"
              ELSE IF entries[id].status = "Void" THEN "CannotPostVoid"
              ELSE IF entries[id].total_debits # entries[id].total_credits
                   THEN "Unbalanced"
              ELSE "ok"
        /\ last'.result # "ok" => entries' = entries /\ lines' = lines
        /\ last'.result = "ok" =>
              /\ entries'[id].status = "Posted"
              /\ entries'[id].posted_at # 0]_vars

C3_Witness ==
    /\ last.op = "post" /\ last.result = "CannotPostVoid"
    /\ \E i \in Ids : entries[i].status = "Posted"

\* C4: the stored totals of every entry are the sums of the debit and of the
\* credit amounts of its stored lines.
C4_TotalsMatchLines ==
    \A i \in Ids :
        /\ entries[i].total_debits = SumDebits(lines[i])
        /\ entries[i].total_credits = SumCredits(lines[i])

\* C5: a creation whose lines do not balance fails with Unbalanced(debits,
\* credits) and stores nothing: the entries and the lines are as before, and
\* so is the number the next creation will get.
C5_UnbalancedCreate ==
    [][last'.op = "create" => \A req \in CreateRequests :
        (~Balanced(req.journal_lines) /\ CreateEntry("create", req))
        => /\ last'.result = "Unbalanced"
           /\ last'.detail.debits = SumDebits(req.journal_lines)
           /\ last'.detail.credits = SumCredits(req.journal_lines)
           /\ entries' = entries
           /\ lines' = lines
           /\ GenerateEntryNumber' = GenerateEntryNumber]_vars

C5_Witness ==
    /\ last.op = "create" /\ last.result = "Unbalanced"
    /\ last.detail.debits = 100 /\ last.detail.credits = 90
    /\ Len(entries) > 0

\* C6 as stated: a creation with a line on a missing or inactive account
\* fails with InvalidAccount and stores neither the header nor any line.
C6_InvalidAccountAlways ==
    [][last'.op = "create" => \A req \in CreateRequests :
        (FirstInvalid(req.journal_lines) # 0 /\ CreateEntry("create", req))
        => /\ last'.result = "InvalidAccount"
           /\ entries' = entries
           /\ lines' = lines]_vars

\* C6 as amended: a creation with a line on a missing or inactive account
\* fails, with Unbalanced when the lines do not balance and with
\* InvalidAccount for the first such account when they do, and stores
\* neither the header nor any line.
C6_InvalidAccountCreate ==
    [][last'.op = "create" => \A req \in CreateRequests :
        (FirstInvalid(req.journal_lines) # 0 /\ CreateEntry("create", req))
        => /\ last'.result =
                 IF Balanced(req.journal_lines) THEN "InvalidAccount" ELSE "Unbalanced"
           /\ Balanced(req.journal_lines) =>
                 last'.detail.account =
                     req.journal_lines[FirstInvalid(req.journal_lines)].account_id
           /\ entries' = entries
           /\ lines' = lines]_vars

C6_Witness ==
    /\ last.op = "create" /\ last.result = "InvalidAccount"
    /\ last.detail.account = 2
    /\ Len(entries) > 0

\* C7: the entry numbers of the stored entries are pairwise distinct, and
\* among the entries created in one calendar year the numeric suffix grows
\* strictly in creation order.
C7_NumbersDistinctIncreasing ==
    \A i \in Ids : \A j \in Ids :
        i < j =>
            /\ entries[i].entry_number # entries[j].entry_number
            /\ entries[i].created_at = entries[j].created_at
                 => entries[i].entry_number.seq < entries[j].entry_number.seq

C7_Witness ==
    /\ Len(entries) >= 3
    /\ entries[3].entry_number.seq = 3
    /\ \E i \in Ids : entries[i].entry_type = "System"
    /\ \E i \in Ids : entries[i].entry_type = "Manual"

\* C8: two creations of balanced entries on active accounts that have both
\* returned have both stored their entry, under different entry numbers.
C8_ConcurrentCreatesDistinct ==
    \A p \in Sessions : \A q \in Sessions \ {p} :
        (/\ sess[p].op = "create" /\ sess[q].op = "create"
         /\ sess[p].pc = "done" /\ sess[q].pc = "done"
         /\ Balanced(sess[p].req.journal_lines)
         /\ Balanced(sess[q].req.journal_lines)
         /\ FirstInvalid(sess[p].req.journal_lines) = 0
         /\ FirstInvalid(sess[q].req.journal_lines) = 0)
        => /\ sess[p].result = "ok" /\ sess[q].result = "ok"
           /\ sess[p].number # sess[q].number

\* C9: an update of a Posted entry fails with ImmutablePosted, and no call
\* changes the row or the lines of an entry that is Posted.
C9_PostedImmutable ==
    [][/\ \A i \in Ids :
             entries[i].status = "Posted"
               => entries'[i] = entries[i] /\ lines'[i] = lines[i]
       /\ (last'.op = "update" /\ last'.id \in Ids
              /\ entries[last'.id].status = "Posted")
            => last'.result = "ImmutablePosted"]_vars

C9_Witness ==
    /\ last.op = "update" /\ last.result = "ImmutablePosted"
    /\ entries[last.id].status = "Posted"
    /\ Len(lines[last.id]) > 0

\* C10: a void call fails with NotFound for an unknown id, with
\* CannotVoidPosted for a Posted entry and with AlreadyVoid for a Void entry,
\* changing nothing; for a Draft entry it succeeds and changes the status of
\* that entry to Void and nothing else.
C10_VoidOutcome ==
    [][last'.op = "void" =>
        LET id == last'.id IN
        /\ last'.result =
              IF id \notin Ids THEN "NotFound"
              ELSE IF entries[id].status = "Posted" THEN "CannotVoidPosted"
              ELSE IF entries[id].status = "Void" THEN "AlreadyVoid"
              ELSE "ok"
        /\ lines' = lines
        /\ last'.result # "ok" => entries' = entries
        /\ last'.result = "ok" =>
              entries' = [entries EXCEPT ![id].status = "Void"]]_vars

C10_Witness ==
    /\ last.op = "void" /\ last.result = "AlreadyVoid"
    /\ entries[last.id].status = "Void"

\* C11: a reversal of a Posted entry e stores a new Draft entry r dated
\* reverseDate, of type System, with reference "REV-" + the number of e and a
\* number no other entry has, with one line per line of e, same account and
\* line number, the debit and the credit amount exchanged; the totals of r
\* are the totals of e exchanged.
C11_ReversalStored ==
    [][last'.op = "reverse" => \A e \in Ids :
        (entries[e].status = "Posted" /\ ReverseEntry(e, MaxDate, MaxEntries)) =>
        LET r == Len(entries) + 1
        IN  /\ last'.result = "ok"
            /\ Len(entries') = r
            /\ entries'[r].status = "Draft"
            /\ entries'[r].entry_date = MaxDate
            /\ entries'[r].entry_type = "System"
            /\ entries'[r].reference = [text |-> "REV-", num |-> entries[e].entry_number]
            /\ \A i \in Ids : entries[i].entry_number # entries'[r].entry_number
            /\ Len(lines'[r]) = Len(lines[e])
            /\ \A k \in 1..Len(lines[e]) :
                  /\ lines'[r][k].account_id = lines[e][k].account_id
                  /\ lines'[r][k].line_number = lines[e][k].line_number
                  /\ lines'[r][k].debit_amount = lines[e][k].credit_amount
                  /\ lines'[r][k].credit_amount = lines[e][k].debit_amount
            /\ entries'[r].total_debits = entries[e].total_credits
            /\ entries'[r].total_credits = entries[e].total_debits]_vars

\* C12: a reversal call, successful or not, leaves the row and the lines of
\* its source entry as they were; on a Draft or a Void source it fails with
\* NotPosted and stores no entry and no line.
C12_ReversalKeepsSource ==
    [][last'.op = "reverse" => \A e \in Ids :
        ReverseEntry(e, MaxDate, MaxEntries) =>
        /\ entries'[e] = entries[e]
        /\ lines'[e] = lines[e]
        /\ entries[e].status \in {"Draft", "Void"}
             => /\ last'.result = "NotPosted"
                /\ entries' = entries
                /\ lines' = lines]_vars

C12_Witness ==
    /\ last.op = "reverse" /\ last.result = "NotPosted"
    /\ entries[last.id].status = "Void"
    /\ \E i \in Ids : entries[i].status = "Posted"

\* C13: the balance of an account as of a date is made of the sums of the
\* debit and of the credit amounts of its lines on the Posted entries dated up
\* to that date, the net signed by the normal balance of the account.
C13_BalanceFromPostedLines ==
    \A a \in DOMAIN accounts : \A d \in Dates \cup {None} :
        LET b == get_account_balance(a, d) IN
        /\ b.debit_balance = PostedDebits(a, d, Ids)
        /\ b.credit_balance = PostedCredits(a, d, Ids)
        /\ b.net_balance = PostedNet(a, d, Ids)

\* the entry r is the reversing entry of e as create_reversing_entry built it
IsReversalOf(r, e) ==
    /\ entries[r].reference = [text |-> "REV-", num |-> entries[e].entry_number]
    /\ Len(lines[r]) = Len(lines[e])
    /\ \A k \in 1..Len(lines[r]) :
          lines[r][k].description =
              [text |-> "Reversal of ", num |-> entries[e].entry_number]

C15_TrialBalanceCloses ==
    \A d \in Dates \cup {None} :
        LET rows == generate_trial_balance(d) IN
        SumDebitColumn(rows, DOMAIN rows) = SumCreditColumn(rows, DOMAIN rows)

\* account anc is met when the parent links are followed from account a for
\* at most n steps
RECURSIVE HasAncestor(_, _, _)
HasAncestor(a, anc, n) ==
    /\ n > 0
    /\ accounts[a].parent_account_id \in AccountIds
    /\ \/ accounts[a].parent_account_id = anc
       \/ HasAncestor(accounts[a].parent_account_id, anc, n - 1)

NoCycle == \A a \in AccountIds : ~HasAncestor(a, a, Len(accounts))

\* a parent id that is given and names no account
Unresolvable(parent) == parent # None /\ parent \notin AccountIds

\* C16: an update that sets the parent of an account to the account itself
\* or to one of its descendants fails with CyclicParent and leaves the chart
\* as it was, and no account of the chart is its own ancestor.
C16_NoCyclicParent ==
    [][/\ last'.op = "update_account" =>
             \A id \in AccountIds : \A upd \in AccountUpdateRequests :
               \A fk \in ForeignKeyEnforced :
                 (/\ "parent_account_id" \in upd.fields_set
                  /\ \/ upd.parent_account_id = id
                     \/ /\ upd.parent_account_id \in AccountIds
                        /\ HasAncestor(upd.parent_account_id, id, Len(accounts))
                  /\ UpdateAccount(id, upd, fk))
                 => /\ last'.result = "CyclicParent"
                    /\ accounts' = accounts
       /\ NoCycle']_vars

\* C17: every parent_account_id that is not NULL names an account of the
\* chart; a creation with a parent id that names no account fails with
\* ParentNotFound and stores nothing, and an update that sets such a parent
\* id is rejected and leaves the account as it was.
C17_ParentExists ==
    [][/\ last'.op = "create_account" =>
             \A req \in AccountCreateRequests : \A fk \in ForeignKeyEnforced :
                 (Unresolvable(req.parent_account_id) /\ CreateAccount(req, fk))
                 => /\ last'.result = "ParentNotFound"
                    /\ accounts' = accounts
       /\ last'.op = "update_account" =>
             \A id \in AccountIds : \A upd \in AccountUpdateRequests :
               \A fk \in ForeignKeyEnforced :
                 (/\ "parent_account_id" \in upd.fields_set
                  /\ Unresolvable(upd.parent_account_id)
                  /\ UpdateAccount(id, upd, fk))
                 => /\ last'.result # "ok"
                    /\ accounts' = accounts
       /\ \A a \in DOMAIN accounts' :
             accounts'[a].parent_account_id # None
                => accounts'[a].parent_account_id \in DOMAIN accounts']_vars

\* C18: no two accounts have the same account_code; a creation with a code
\* that an account has, active or not, fails with DuplicateCode and stores
\* nothing, and no call changes the account_code of an account.
C18_CodesUnique ==
    [][/\ \A a \in DOMAIN accounts' : \A b \in DOMAIN accounts' :
             a # b => accounts'[a].account_code # accounts'[b].account_code
       /\ \A a \in AccountIds : accounts'[a].account_code = accounts[a].account_code
       /\ last'.op = "create_account" =>
             \A req \in AccountCreateRequests : \A fk \in ForeignKeyEnforced :
                 (/\ \E a \in AccountIds : accounts[a].account_code = req.account_code
                  /\ CreateAccount(req, fk))
                 => /\ last'.result = "DuplicateCode"
                    /\ accounts' = accounts]_vars

C18_Witness ==
    /\ last.op = "create_account" /\ last.result = "DuplicateCode"
    /\ Len(accounts) = 1
    /\ ~accounts[1].is_active

C20_PostedStamps ==
    \A i \in Ids :
        (entries[i].status = "Posted")
            <=> (entries[i].posted_at # 0 /\ entries[i].posted_by # 0)

\* C21: after a successful void call a text column of the entry holds the
\* reason that was passed.
C21_VoidReasonStored ==
    [][last'.op = "void" => \A id \in Ids : \A reason \in Reasons :
        (VoidEntry(id, reason) /\ last'.result = "ok")
        => reason \in {entries'[id].reference, entries'[id].description}]_vars

\* C22: an update with lines that are unbalanced or name a missing or
\* inactive account fails and leaves the row and the lines of the entry as
\* they were; a successful one stores exactly the lines supplied.
C22_LinesReplacedAtomically ==
    [][last'.op = "update" => \A id \in Ids : \A upd \in UpdateRequests :
        ("journal_lines" \in upd.fields_set /\ UpdateEntry(id, upd)) =>
        /\ (~Balanced(upd.journal_lines) \/ FirstInvalid(upd.journal_lines) # 0)
             => /\ last'.result # "ok"
                /\ entries'[id] = entries[id]
                /\ lines'[id] = lines[id]
        /\ last'.result = "ok" => lines'[id] = upd.journal_lines]_vars

\* C23: a successful update without lines sets the scalar fields supplied and
\* leaves every other attribute of the entry, its lines and every other entry
\* as they were.
C23_ScalarUpdateFrame ==
    [][last'.op = "update" => \A id \in Ids : \A upd \in FrameUpdateRequests :
        (/\ "journal_lines" \notin upd.fields_set
         /\ UpdateEntry(id, upd)
         /\ last'.result = "ok") =>
        /\ lines' = lines
        /\ \A i \in Ids \ {id} : entries'[i] = entries[i]
        /\ \A f \in DOMAIN entries[id] :
              entries'[id][f] = IF f \in upd.fields_set THEN upd[f] ELSE entries[id][f]]_vars

C23_Witness ==
    /\ last.op = "update" /\ last.result = "ok"
    /\ entries[last.id].reference = Text("ref2")
    /\ entries[last.id].entry_date = 1
    /\ Len(lines[last.id]) = 2

\* C30: the lines a successful creation or update stores name accounts that
\* are active at that moment; a deactivation changes no entry and no line
\* and nothing of what the reports derive from the Posted entries; and a
\* balanced Draft entry is posted whatever the state of its accounts.
C30_ActivityCheckedAtWrite ==
    [][/\ (last'.op \in {"create", "update"} /\ last'.result = "ok") =>
             \A i \in 1..Len(lines') :
                 (i \notin Ids \/ lines'[i] # lines[i])
                 => \A k \in 1..Len(lines'[i]) : AccountActive(lines'[i][k].account_id)
       /\ last'.op = "delete_account" =>
             /\ entries' = entries
             /\ lines' = lines
             /\ \A d \in Dates \cup {None} :
                   /\ generate_trial_balance(d)' = generate_trial_balance(d)
                   /\ \A a \in DOMAIN accounts :
                         /\ PostedNet(a, d, Ids)' = PostedNet(a, d, Ids)
                         /\ get_account_balance(a, d)' = get_account_balance(a, d)
       /\ (/\ last'.op = "post" /\ last'.id \in Ids
           /\ entries[last'.id].status = "Draft"
           /\ entries[last'.id].is_balanced) =>
             /\ last'.result = "ok"
             /\ entries'[last'.id].status = "Posted"]_vars

C30_Witness ==
    /\ last.op = "post" /\ last.result = "ok"
    /\ \E k \in 1..Len(lines[last.id]) : ~AccountActive(lines[last.id][k].account_id)

\* the ids of the accounts of a list of trees
RECURSIVE TreeIds(_)
TreeIds(h) ==
    UNION {{h[i].id} \cup TreeIds(h[i].children) : i \in 1..Len(h)}

Descendants(r) == {a \in AccountIds : HasAncestor(a, r, Len(accounts))}

\* C29: the reading of the hierarchy changes no account; on a chart without
\* cycles whose accounts are all active, the result for an account is one
\* tree, rooted at it, that holds all its descendants, and the result
\* without an account is one tree for each parentless account, each holding
\* all the descendants of its root.
C29_HierarchyComplete ==
    [][last'.op = "get_account_hierarchy" =>
        /\ accounts' = accounts
        /\ (NoCycle /\ \A a \in AccountIds : accounts[a].is_active) =>
             \A r \in AccountIds \cup {None} : r = last'.id =>
                 \A h \in {Hierarchy(r)} : h = last'.hierarchy =>
                     /\ r \in AccountIds =>
                           /\ Len(h) = 1
                           /\ h[1].id = r
                           /\ TreeIds(h) = {r} \cup Descendants(r)
                     /\ r = None =>
                           /\ {h[i].id : i \in 1..Len(h)} =
                                 {a \in AccountIds : accounts[a].parent_account_id = None}
                           /\ \A i \in 1..Len(h) :
                                 TreeIds(<<h[i]>>) = {h[i].id} \cup Descendants(h[i].id)]_vars

\* the party column of the table of the service
PartyOf(i) == IF invoices.service = "receivable" THEN i.customer_id ELSE i.vendor_id

\* the status under which the service reports an invoice
ReportedStatus == IF invoices.service = "receivable" THEN "Sent" ELSE "Approved"

\* the rows, by index, that the report of a party is about: of the reported
\* status, not fully paid, and of the party when one is given
OpenItems(party) ==
    {k \in 1..Len(invoices.rows) :
        /\ invoices.rows[k].status = ReportedStatus
        /\ invoices.rows[k].paid_amount < invoices.rows[k].total_amount
        /\ Truthy(party) => PartyOf(invoices.rows[k]) = party}

\* days overdue d lies in the range of bucket b
InBucket(b, d) ==
    CASE b = "current" -> d <= 0
      [] b = "1_30_days" -> d >= 1 /\ d <= 30
      [] b = "31_60_days" -> d >= 31 /\ d <= 60
      [] b = "61_90_days" -> d >= 61 /\ d <= 90
      [] b = "over_90_days" -> d > 90

RECURSIVE SumOpen(_)
SumOpen(S) ==
    IF S = {} THEN 0
    ELSE LET k == CHOOSE x \in S : TRUE
         IN invoices.rows[k].total_amount - invoices.rows[k].paid_amount
            + SumOpen(S \ {k})

RECURSIVE SumField(_, _, _)
SumField(buckets, names, field) ==
    IF names = {} THEN 0
    ELSE LET b == CHOOSE x \in names : TRUE
         IN buckets[b][field] + SumField(buckets, names \ {b}, field)

\* C27: each bucket of a report holds the open items, those due after the
\* as_of_date included, whose days overdue lie in the range of the bucket.
C27_EveryOpenItemBucketed ==
    [][last'.op = "aging" => \A rep \in {last'.report} : \A b \in BucketNames :
        LET S == {k \in OpenItems(rep.party) :
                     InBucket(b, rep.as_of_date - invoices.rows[k].due_date)}
        IN /\ rep.aging_buckets[b].count = Cardinality(S)
           /\ rep.aging_buckets[b].amount = SumOpen(S)]_vars

\* C28: in a report the total outstanding is the sum of the amounts of the
\* buckets and the number of invoices is the sum of their counts; each
\* invoice counted is outstanding by a positive amount and adds it to the
\* one bucket whose range holds its days overdue; the table is unchanged.
C28_ReportTotals ==
    [][last'.op = "aging" => \A rep \in {last'.report} :
        LET Counted == {k \in OpenItems(rep.party) :
                           invoices.rows[k].due_date <= rep.as_of_date}
            Days(k) == rep.as_of_date - invoices.rows[k].due_date
        IN /\ invoices' = invoices
           /\ rep.total_outstanding = SumField(rep.aging_buckets, BucketNames, "amount")
           /\ rep.total_invoices = SumField(rep.aging_buckets, BucketNames, "count")
           /\ rep.total_invoices = Cardinality(Counted)
           /\ \A k \in Counted :
                 /\ invoices.rows[k].total_amount - invoices.rows[k].paid_amount > 0
                 /\ Cardinality({b \in BucketNames : InBucket(b, Days(k))}) = 1
           /\ \A b \in BucketNames :
                 LET S == {k \in Counted : InBucket(b, Days(k))}
                 IN /\ rep.aging_buckets[b].count = Cardinality(S)
                    /\ rep.aging_buckets[b].amount = SumOpen(S)]_vars

C28_Witness ==
    /\ last.op = "aging"
    /\ last.report.total_invoices = 1
    /\ last.report.aging_buckets["61_90_days"] = [amount |-> 60, count |-> 1]
    /\ last.report.total_outstanding = 60
    /\ \E k \in 1..Len(invoices.rows) :
          invoices.rows[k].paid_amount = invoices.rows[k].total_amount

\* C24: the totals of the row that a reader has read are the sums over the
\* lines it has read.
C24_ReaderSeesConsistentEntry ==
    \A p \in Sessions :
        (sess[p].op = "get" /\ sess[p].pc = "done" /\ sess[p].result = "ok") =>
            /\ sess[p].header.total_debits = SumDebits(sess[p].seen)
            /\ sess[p].header.total_credits = SumCredits(sess[p].seen)

\* C25: the status of an entry never goes from Posted to Void or from Void
\* to Posted, and a post and a void of the same entry never both succeed.
C25_PostVoidExclusive ==
    [][/\ \A id \in Ids :
             /\ ~(entries[id].status = "Posted" /\ entries'[id].status = "Void")
             /\ ~(entries[id].status = "Void" /\ entries'[id].status = "Posted")
       /\ \A p \in Sessions : \A q \in Sessions \ {p} :
             ~(/\ sess'[p].op = "post" /\ sess'[q].op = "void"
               /\ sess'[p].id = sess'[q].id
               /\ sess'[p].pc = "done" /\ sess'[q].pc = "done"
               /\ sess'[p].result = "ok" /\ sess'[q].result = "ok")]_vars

\* C26: when the creation of an entry commits, the accounts of its lines are
\* active.
C26_CommitOnActiveAccounts ==
    [][\A p \in Sessions :
          (CreateCommit(p) /\ sess'[p].result = "ok") =>
              \A k \in 1..Len(sess[p].req.journal_lines) :
                  AccountActive(sess[p].req.journal_lines[k].account_id)]_vars

\* C31: the lines, the totals and the scalar fields of an entry whose
\* committed status is Posted do not change.
C31_PostedFrozenUnderConcurrency ==
    [][\A id \in Ids : entries[id].status = "Posted" =>
          /\ lines'[id] = lines[id]
          /\ \A f \in ScalarFields \cup {"total_debits", "total_credits", "is_balanced"} :
                entries'[id][f] = entries[id][f]]_vars

\* C32: with one call at a time every stored entry, whatever its status, has
\* is_balanced true and equal totals, and no post fails as Unbalanced.
C32_StoredEntriesBalanced ==
    /\ \A id \in Ids :
          /\ entries[id].is_balanced
          /\ entries[id].total_debits = entries[id].total_credits
    /\ last.op = "post" => last.result # "Unbalanced"

C32_Witness ==
    /\ last.op = "update" /\ last.result = "Unbalanced"
    /\ entries[last.id].is_balanced
    /\ \E id \in Ids : entries[id].status = "Posted"

\* C33: no inactive account is the parent of an active account.
C33_NoActiveChildOfInactive ==
    \A a \in AccountIds : \A b \in AccountIds :
        (accounts[b].parent_account_id = a /\ accounts[b].is_active)
        => accounts[a].is_active

\* C34: an update is refused as ImmutablePosted exactly when the entry is
\* Posted; on a Void entry an update without lines, or with balanced lines on
\* active accounts, succeeds, writes the supplied scalar fields, the lines and
\* the totals, and leaves the status Void.
C34_VoidEntryStillEditable ==
    [][last'.op = "update" => \A id \in Ids : \A upd \in FrameUpdateRequests :
        (id = last'.id /\ UpdateEntry(id, upd)) =>
        /\ last'.result = "ImmutablePosted" <=> entries[id].status = "Posted"
        /\ (/\ entries[id].status = "Void"
            /\ \/ "journal_lines" \notin upd.fields_set
               \/ /\ Balanced(upd.journal_lines)
                  /\ FirstInvalid(upd.journal_lines) = 0) =>
              /\ last'.result = "ok"
              /\ entries'[id].status = "Void"
              /\ \A f \in ScalarFields \cap upd.fields_set : entries'[id][f] = upd[f]
              /\ "journal_lines" \in upd.fields_set =>
                    /\ lines'[id] = StoredLines(upd.journal_lines)
                    /\ entries'[id].total_debits = Quantize(SumDebits(upd.journal_lines))
                    /\ entries'[id].total_credits = Quantize(SumCredits(upd.journal_lines))
                    /\ entries'[id].is_balanced]_vars

C34_Witness ==
    /\ last.op = "update" /\ last.result = "ok"
    /\ entries[last.id].status = "Void"
    /\ lines[last.id] = StoredLines(OneLineBothSides)
    /\ entries[last.id].total_debits = 10

\* C35: a creation with an empty list of lines succeeds: it stores a Draft
\* entry without lines, with both totals 0 and is_balanced true, under the
\* number the next creation would otherwise have had; and a Draft entry
\* without lines is posted.
C35_EmptyEntryAccepted ==
    [][/\ last'.op = "create" => \A req \in YearCreateRequests :
             (req.journal_lines = <<>> /\ CreateEntry("create", req)) =>
                 /\ last'.result = "ok"
                 /\ Len(entries') = Len(entries) + 1
                 /\ \A n \in {Len(entries) + 1} :
                       /\ lines'[n] = <<>>
                       /\ entries'[n].status = "Draft"
                       /\ entries'[n].total_debits = 0
                       /\ entries'[n].total_credits = 0
                       /\ entries'[n].is_balanced
                       /\ entries'[n].entry_number = GenerateEntryNumber
                       /\ GenerateEntryNumber' # GenerateEntryNumber
       /\ (/\ last'.op = "post" /\ last'.id \in Ids
           /\ entries[last'.id].status = "Draft"
           /\ lines[last'.id] = <<>>) =>
             /\ last'.result = "ok"
             /\ entries'[last'.id].status = "Posted"]_vars

C35_Witness ==
    /\ last.op = "post" /\ last.result = "ok"
    /\ entries[last.id].status = "Posted"
    /\ lines[last.id] = <<>>

\* C36: the number of a created entry holds the calendar year of the
\* creation and, as suffix, the count of the entries created in that year,
\* the new one included, whatever the entry dates and whatever was created in
\* other years.
C36_NumberScopedToCreationYear ==
    [][(last'.op = "create" /\ Len(entries') = Len(entries) + 1) =>
          \A n \in {Len(entries) + 1} :
              /\ entries'[n].created_at = year
              /\ entries'[n].entry_number.year = year
              /\ entries'[n].entry_number.seq =
                    Cardinality({i \in 1..n : entries'[i].created_at = year})]_vars

C36_Witness ==
    /\ last.op = "create" /\ last.result = "ok"
    /\ year = 2
    /\ Len(entries) = 2
    /\ entries[1].created_at = 1 /\ entries[1].entry_date = 2
    /\ entries[2].entry_date = 1
    /\ entries[2].entry_number = [year |-> 2, seq |-> 1]

\* the invoices, by index, that reference a sales order
InvoicesOf(so_id) ==
    {i \in 1..Len(invoices.rows) : invoices.rows[i].sales_order_id = so_id}

\* C37: a call adds an invoice only for an order that is Approved or Shipped
\* and has no invoice yet; a call that raises adds no invoice and no invoice
\* line; and no sales order ever has more than one invoice.
C37_OneInvoicePerOrder ==
    [][last'.op = "generate_invoice" => \A so_id \in OrderIdArgs :
          (so_id = last'.id /\ GenerateInvoice(so_id)) =>
          /\ invoices' # invoices =>
                /\ so_id \in DOMAIN sales_orders
                /\ sales_orders[so_id].status \in {"Approved", "Shipped"}
                /\ InvoicesOf(so_id) = {}
                /\ last'.result = "ok"
          /\ (\/ so_id \notin DOMAIN sales_orders
              \/ sales_orders[so_id].status \notin {"Approved", "Shipped"}
              \/ InvoicesOf(so_id) # {}
              \/ last'.result # "ok") =>
                /\ invoices' = invoices
                /\ invoice_lines' = invoice_lines
          /\ \A o \in DOMAIN sales_orders : Cardinality(InvoicesOf(o)') <= 1]_vars

C37_Witness ==
    /\ last.op = "generate_invoice" /\ last.result = "InvoiceExists"
    /\ Cardinality(InvoicesOf(last.id)) = 1
    /\ sales_orders[last.id].status = "Shipped"

====
